---------------------------- MODULE Spec2Model ----------------------------
(***************************************************************************)
(* coachpy: the Simulation recorder (src/src/coachpy/simulation.py), the   *)
(* package module's own Simulation class and its process-wide default      *)
(* instance (src/src/coachpy/__init__.py).                                 *)
(*                                                                         *)
(* A Python dict is an insertion-ordered sequence of [k, v] entries; a     *)
(* Python float is [nan, v]; a value handed to track() carries its Python  *)
(* type, so that float() and the isinstance test act on it as in the code. *)
(***************************************************************************)
EXTENDS Integers, Sequences, FiniteSets, TLC

VARIABLES
    name,            \* Simulation.name
    _history,        \* Simulation._history: ordered dict, name -> list of floats
    _metadata,       \* Simulation._metadata: dict, name -> dict of "unit"/"label"
    _current_step,   \* Simulation._current_step
    calls,           \* the track() calls made since construction or the last reset
    metaCalls,       \* the set_metadata() calls made since construction or the last reset
    last,            \* the most recent operation: its arguments, exception and result
    returned,        \* the list the caller holds from its most recent get_data()
    _global_sim,     \* coachpy._global_sim, the package's default instance
    pkgLast          \* the most recent top-level call on the package: exception, result

pkgVars == <<_global_sim, pkgLast>>
vars == <<name, _history, _metadata, _current_step, calls, metaCalls, last, returned,
          _global_sim, pkgLast>>

---------------------------------------------------------------------------
(* Bounds *)

\* track() calls per run (since construction or the last reset)
MaxSteps == 3
\* set_metadata() calls per run (since construction or the last reset)
MaxMeta == 3

---------------------------------------------------------------------------
(* Python values *)

\* float("nan")
NaN == [nan |-> TRUE, v |-> 0]

\* a finite float
Flt(n) == [nan |-> FALSE, v |-> n]

\* the values a caller hands to track(): an int, a bool, a str, and an int too
\* large for a float
IntV(n) == [type |-> "int", v |-> n]
BoolTrue == [type |-> "bool", v |-> 1]
StrV == [type |-> "str", v |-> 0]
HugeV == [type |-> "int", v |-> -1]

\* isinstance(value, (int, float)): bool is a subclass of int
IsNumber(value) == value.type \in {"int", "bool", "float"}

\* float(value) raises OverflowError for an int beyond the float range
Overflows(value) == value = HugeV

\* float(value) of a value that converts
Float(value) == Flt(value.v)

\* a track() that starts a new series empty instead of back-filling it
NoBackfill(n) == <<>>

\* [float("nan")] * n
NaNs(n) == [i \in 1..n |-> NaN]

---------------------------------------------------------------------------
(* Python dict, insertion-ordered *)

\* list(d.keys())
Keys(d) == [i \in 1..Len(d) |-> d[i].k]

\* key in d
Has(d, key) == \E i \in 1..Len(d) : d[i].k = key

\* d[key]
Get(d, key) == d[CHOOSE i \in 1..Len(d) : d[i].k = key].v

\* d[key] = val: in place for a present key, at the end for a new one
Put(d, key, val) ==
    IF Has(d, key)
    THEN [i \in 1..Len(d) |-> IF d[i].k = key THEN [k |-> key, v |-> val] ELSE d[i]]
    ELSE Append(d, [k |-> key, v |-> val])

---------------------------------------------------------------------------
(* Python list references *)

\* a list the caller holds: its contents, and the key under which _history holds
\* the very same list object (NoRef when it holds none: a list of the caller's own)
NoRef == ""

\* what the caller's list reads after the recorder's lists became those of h
Sync(ret, h) ==
    IF ret.ref # NoRef /\ Has(h, ret.ref) THEN [ret EXCEPT !.val = Get(h, ret.ref)]
    ELSE ret

---------------------------------------------------------------------------
(* Simulation.__init__ *)

InitHistory == <<[k |-> "step", v |-> <<>>]>>

InitMetadata == [x \in {"step"} |-> [label |-> "Stappen", unit |-> ""]]

---------------------------------------------------------------------------
(* Simulation.track *)

\* the loop over variables.items(), from item i on: the history it leaves and
\* the exception that ended it
RECURSIVE TrackLoop(_, _, _, _)
TrackLoop(h, step, kw, i) ==
    IF i > Len(kw) THEN [hist |-> h, exc |-> "none"]
    ELSE LET nm == kw[i][1]
             value == kw[i][2]
         IN  IF ~IsNumber(value) THEN [hist |-> h, exc |-> "TypeError"]
             ELSE LET h1 == IF ~Has(h, nm) THEN Put(h, nm, NaNs(step - 1)) ELSE h
                  IN  IF Overflows(value) THEN [hist |-> h1, exc |-> "OverflowError"]
                      ELSE TrackLoop(Put(h1, nm, Append(Get(h1, nm), Float(value))),
                                     step, kw, i + 1)

\* the closing loop: one nan for every series but "step" that is still short
PadLoop(h, step) ==
    [i \in 1..Len(h) |->
        IF h[i].k # "step" /\ Len(h[i].v) < step
        THEN [k |-> h[i].k, v |-> Append(h[i].v, NaN)]
        ELSE h[i]]

\* the whole of track(**kw) on history h at counter step (already incremented)
TrackResult(h, step, kw) ==
    LET h0 == Put(h, "step", Append(Get(h, "step"), Float(IntV(step))))
        r == TrackLoop(h0, step, kw, 1)
    IN  IF r.exc = "none" THEN [hist |-> PadLoop(r.hist, step), exc |-> "none"]
        ELSE r

Track(kw) ==
    /\ _current_step < MaxSteps
    /\ _current_step' = _current_step + 1
    /\ LET r == TrackResult(_history, _current_step + 1, kw)
       IN  /\ _history' = r.hist
           /\ calls' = Append(calls, [kw |-> kw, exc |-> r.exc])
           /\ last' = [op |-> "track", exc |-> r.exc, arg |-> kw, out |-> <<>>]
           /\ returned' = Sync(returned, r.hist)
    /\ UNCHANGED <<name, _metadata, metaCalls>>


---------------------------------------------------------------------------
(* Simulation.set_metadata *)

EmptyDict == [x \in {} |-> ""]

\* d[key] = val on a plain dict (a function)
Store(d, key, val) == [x \in DOMAIN d \cup {key} |-> IF x = key THEN val ELSE d[x]]

\* d.get(key, default)
GetOr(d, key, default) == IF key \in DOMAIN d THEN d[key] ELSE default

\* a set_metadata() that stores whatever it is given, the empty string too
SetMetadataOverwrite(m, variable, unit, label) ==
    LET m1 == IF variable \notin DOMAIN m THEN Store(m, variable, EmptyDict) ELSE m
        m2 == Store(m1, variable, Store(m1[variable], "unit", unit))
    IN  Store(m2, variable, Store(m2[variable], "label", label))

SetMetadataResult(m, variable, unit, label) ==
    LET m1 == IF variable \notin DOMAIN m THEN Store(m, variable, EmptyDict) ELSE m
        m2 == IF unit # "" THEN Store(m1, variable, Store(m1[variable], "unit", unit))
              ELSE m1
    IN  IF label # "" THEN Store(m2, variable, Store(m2[variable], "label", label))
        ELSE m2

SetMetadata(variable, unit, label) ==
    /\ Len(metaCalls) < MaxMeta
    /\ _metadata' = SetMetadataResult(_metadata, variable, unit, label)
    /\ metaCalls' = Append(metaCalls, [variable |-> variable, unit |-> unit, label |-> label])
    /\ last' = [op |-> "set_metadata", exc |-> "none",
                arg |-> <<variable, unit, label>>, out |-> <<>>]
    /\ UNCHANGED <<name, _history, _current_step, calls, returned>>

---------------------------------------------------------------------------
(* Simulation._get_label *)

GetLabel(m, variable) ==
    IF variable \notin DOMAIN m THEN variable
    ELSE LET meta == m[variable]
             label == GetOr(meta, "label", variable)
             unit == GetOr(meta, "unit", "")
         IN  IF unit # "" THEN label \o " (" \o unit \o ")" ELSE label

---------------------------------------------------------------------------
(* Simulation.plot *)

\* the calls plot() makes to matplotlib.pyplot
Fig == [fn |-> "figure"]
Line(x, y, label) == [fn |-> "plot", x |-> x, y |-> y, label |-> label]
Text(fn, text) == [fn |-> fn, text |-> text]
Call(fn) == [fn |-> fn]

\* a plot() that takes any key of the history for recorded data
EmptyDataNoHistory(h) == h = <<>>

\* "Geen data om te plotten": no history, or no or an empty "step" series
EmptyData(h) == h = <<>> \/ ~Has(h, "step") \/ Get(h, "step") = <<>>

\* against if against else "step"
XAxis(against) == IF against # "" THEN against ELSE "step"

\* [k for k in self._history.keys() if k != x_axis]
OtherKeys(h, x_axis) == SelectSeq(Keys(h), LAMBDA k : k # x_axis)

\* the loop over variables from item i on, after the pyplot calls made so far
RECURSIVE PlotLoop(_, _, _, _, _, _)
PlotLoop(h, m, x_axis, variables, i, made) ==
    IF i > Len(variables) THEN [exc |-> "none", out |-> made]
    ELSE IF ~Has(h, variables[i]) THEN [exc |-> "UnknownVariable", out |-> made]
    ELSE PlotLoop(h, m, x_axis, variables, i + 1,
                  Append(made, Line(Get(h, x_axis), Get(h, variables[i]),
                                    GetLabel(m, variables[i]))))

\* the calls after the loop: labels, title, legend, grid, layout, show
Finish(m, nm, x_axis, variables, opt) ==
    <<Text("xlabel", IF opt.xlabel # "" THEN opt.xlabel ELSE GetLabel(m, x_axis))>>
    \o (IF opt.ylabel # "" THEN <<Text("ylabel", opt.ylabel)>>
        ELSE IF Len(variables) = 1 THEN <<Text("ylabel", GetLabel(m, variables[1]))>>
        ELSE <<>>)
    \o <<Text("title", IF opt.title # "" THEN opt.title ELSE nm)>>
    \o (IF Len(variables) > 1 THEN <<Call("legend")>> ELSE <<>>)
    \o (IF opt.grid THEN <<Call("grid")>> ELSE <<>>)
    \o <<Call("tight_layout"), Call("show")>>

\* the whole of plot(*variables, **opt): the exception raised and the pyplot
\* calls made, in order
PlotResult(h, m, nm, variables, opt) ==
    IF EmptyData(h) THEN [exc |-> "EmptyData", out |-> <<>>]
    ELSE LET x_axis == XAxis(opt.against) IN
         IF ~Has(h, x_axis) THEN [exc |-> "UnknownVariable", out |-> <<>>]
         ELSE LET vs == IF variables = <<>> THEN OtherKeys(h, x_axis) ELSE variables
                  r == PlotLoop(h, m, x_axis, vs, 1, <<Fig>>)
              IN  IF r.exc # "none" THEN r
                  ELSE [exc |-> "none", out |-> r.out \o Finish(m, nm, x_axis, vs, opt)]

Plot(variables, opt) ==
    /\ LET r == PlotResult(_history, _metadata, name, variables, opt)
       IN  last' = [op |-> "plot", exc |-> r.exc,
                    arg |-> [variables |-> variables, opt |-> opt], out |-> r.out]
    /\ UNCHANGED <<name, _history, _metadata, _current_step, calls, metaCalls, returned>>

---------------------------------------------------------------------------
(* Simulation.get_data *)

\* a get_data() that returns the recorder's own list
GetDataLive(h, variable) == [held |-> TRUE, ref |-> variable, val |-> Get(h, variable)]

\* self._history[variable].copy(): a new list, no longer the recorder's
GetDataResult(h, variable) == [held |-> TRUE, ref |-> NoRef, val |-> Get(h, variable)]

GetData(variable) ==
    /\ IF ~Has(_history, variable)
       THEN /\ last' = [op |-> "get_data", exc |-> "NotFound", arg |-> variable, out |-> <<>>]
            /\ UNCHANGED returned
       ELSE LET r == GetDataResult(_history, variable)
            IN  /\ returned' = r
                /\ last' = [op |-> "get_data", exc |-> "none", arg |-> variable,
                            out |-> r.val]
    /\ UNCHANGED <<name, _history, _metadata, _current_step, calls, metaCalls>>

\* the caller appends x to the list get_data() gave it; a list that is still the
\* recorder's own changes in _history too
CallerAppend(x) ==
    /\ returned.held
    /\ Len(returned.val) <= MaxSteps
    /\ returned' = [returned EXCEPT !.val = Append(@, x)]
    /\ _history' = IF returned.ref # NoRef /\ Has(_history, returned.ref)
                   THEN Put(_history, returned.ref, Append(returned.val, x))
                   ELSE _history
    /\ last' = [op |-> "caller_append", exc |-> "none", arg |-> x, out |-> <<>>]
    /\ UNCHANGED <<name, _metadata, _current_step, calls, metaCalls>>

---------------------------------------------------------------------------
(* Simulation.reset *)

Reset ==
    /\ _history' = InitHistory
    /\ _metadata' = InitMetadata
    /\ _current_step' = 0
    /\ calls' = <<>>
    /\ metaCalls' = <<>>
    /\ returned' = [returned EXCEPT !.ref = NoRef]
    /\ last' = [op |-> "reset", exc |-> "none", arg |-> <<>>, out |-> <<>>]
    /\ UNCHANGED name

---------------------------------------------------------------------------
(* The package module's Simulation class and its default instance *)

\* _global_sim = Simulation("Simulatie")
InitGlobalSim == [name |-> "Simulatie", history |-> <<>>, metadata |-> EmptyDict]

\* track(): no counter, no "step" series, no padding; float(value) itself
\* rejects a value (ValueError for a str, OverflowError for a huge int), after
\* the empty list of a new name is made
RECURSIVE PkgTrackLoop(_, _, _)
PkgTrackLoop(h, kw, i) ==
    IF i > Len(kw) THEN [hist |-> h, exc |-> "none"]
    ELSE LET nm == kw[i][1]
             value == kw[i][2]
             h1 == IF ~Has(h, nm) THEN Put(h, nm, <<>>) ELSE h
         IN  IF ~IsNumber(value) THEN [hist |-> h1, exc |-> "ValueError"]
             ELSE IF Overflows(value) THEN [hist |-> h1, exc |-> "OverflowError"]
             ELSE PkgTrackLoop(Put(h1, nm, Append(Get(h1, nm), Float(value))), kw, i + 1)

\* plot(): the x axis defaults to the first key tracked; no default for variables
PkgPlotResult(h, m, nm, variables, opt) ==
    IF h = <<>> THEN [exc |-> "EmptyData", out |-> <<>>]
    ELSE LET against == IF opt.against = "" THEN Keys(h)[1] ELSE opt.against IN
         IF ~Has(h, against) THEN [exc |-> "UnknownVariable", out |-> <<>>]
         ELSE LET r == PlotLoop(h, m, against, variables, 1, <<Fig>>)
              IN  IF r.exc # "none" THEN r
                  ELSE [exc |-> "none",
                        out |-> r.out \o Finish(m, nm, against, variables, opt)]

\* reset(): self._history.clear()
PkgResetResult(sim) == [sim EXCEPT !.history = <<>>]

\* the top-level functions: each forwards to _global_sim
pkg_track(kw) ==
    LET r == PkgTrackLoop(_global_sim.history, kw, 1)
    IN  /\ _global_sim' = [_global_sim EXCEPT !.history = r.hist]
        /\ pkgLast' = [op |-> "track", exc |-> r.exc, out |-> <<>>]

pkg_plot(variables, opt) ==
    LET r == PkgPlotResult(_global_sim.history, _global_sim.metadata, _global_sim.name,
                           variables, opt)
    IN  /\ pkgLast' = [op |-> "plot", exc |-> r.exc, out |-> r.out]
        /\ UNCHANGED _global_sim

pkg_set_metadata(variable, unit, label) ==
    /\ _global_sim' = [_global_sim EXCEPT
                         !.metadata = SetMetadataResult(@, variable, unit, label)]
    /\ pkgLast' = [op |-> "set_metadata", exc |-> "none", out |-> <<>>]

pkg_reset ==
    /\ _global_sim' = PkgResetResult(_global_sim)
    /\ pkgLast' = [op |-> "reset", exc |-> "none", out |-> <<>>]

---------------------------------------------------------------------------
(* Inputs *)

\* up to two keyword arguments, with distinct names from N and values from V
KwargsOver(N, V) ==
    {<<>>} \cup {<<p>> : p \in N \X V}
           \cup {kw \in {<<p, q>> : p \in N \X V, q \in N \X V} : kw[1][1] # kw[2][1]}

\* the numbers a successful track() call is given, under any name
NumKwargs == KwargsOver({"step", "a", "b"}, {IntV(2), BoolTrue})

\* track() calls some of which are rejected
BadKwargs == KwargsOver({"a", "b"}, {IntV(2), StrV, HugeV})

\* a few track() calls: nothing, a alone, b before a
FewKwargs == {<<>>, <<<<"a", IntV(2)>>>>, <<<<"b", BoolTrue>>, <<"a", IntV(2)>>>>}

MetaNames == {"step", "a"}
Units == {"", "m", "s"}
Labels == {"", "Hoogte", "Tijd"}

\* plot(): up to two variables, tracked or not, and the keyword options
PlotVariables == {<<>>, <<"a">>, <<"z">>, <<"a", "b">>, <<"b", "a">>, <<"a", "z">>}

\* plot()'s defaults: against=None, title=None, xlabel=None, ylabel=None, grid=True
Defaults == [against |-> "", title |-> "", xlabel |-> "", ylabel |-> "", grid |-> TRUE]

PlotOptions ==
    {Defaults,
     [Defaults EXCEPT !.against = "a"],
     [Defaults EXCEPT !.against = "z"],
     [Defaults EXCEPT !.ylabel = "hoogte (m)", !.grid = FALSE],
     [Defaults EXCEPT !.against = "a", !.title = "Vrije val", !.xlabel = "tijd (s)"]}

QueryNames == {"step", "a", "z"}

---------------------------------------------------------------------------
(* Specifications *)

Init ==
    /\ name = "Simulatie"
    /\ _history = InitHistory
    /\ _metadata = InitMetadata
    /\ _current_step = 0
    /\ calls = <<>>
    /\ metaCalls = <<>>
    /\ last = [op |-> "init", exc |-> "none", arg |-> <<>>, out |-> <<>>]
    /\ returned = [held |-> FALSE, ref |-> NoRef, val |-> <<>>]
    /\ _global_sim = InitGlobalSim
    /\ pkgLast = [op |-> "init", exc |-> "none", out |-> <<>>]

\* recording: track() calls that succeed, and reset()
Next ==
    \/ (\E kw \in NumKwargs : Track(kw)) /\ UNCHANGED pkgVars
    \/ Reset /\ UNCHANGED pkgVars

Spec == Init /\ [][Next]_vars

\* recording with rejected values
NextReject ==
    \/ (\E kw \in BadKwargs : Track(kw)) /\ UNCHANGED pkgVars
    \/ Reset /\ UNCHANGED pkgVars

SpecReject == Init /\ [][NextReject]_vars

\* metadata
NextMeta ==
    \/ (\E v \in MetaNames, u \in Units, l \in Labels : SetMetadata(v, u, l))
          /\ UNCHANGED pkgVars
    \/ Track(<<<<"a", IntV(2)>>>>) /\ UNCHANGED pkgVars
    \/ Reset /\ UNCHANGED pkgVars

SpecMeta == Init /\ [][NextMeta]_vars

\* rendering
NextPlot ==
    \/ (\E kw \in FewKwargs : Track(kw)) /\ UNCHANGED pkgVars
    \/ SetMetadata("a", "m", "Hoogte") /\ UNCHANGED pkgVars
    \/ (\E vs \in PlotVariables, opt \in PlotOptions : Plot(vs, opt)) /\ UNCHANGED pkgVars
    \/ Reset /\ UNCHANGED pkgVars

SpecPlot == Init /\ [][NextPlot]_vars

\* querying
NextQuery ==
    \/ (\E kw \in FewKwargs : Track(kw)) /\ UNCHANGED pkgVars
    \/ (\E v \in QueryNames : GetData(v)) /\ UNCHANGED pkgVars
    \/ CallerAppend(Flt(9)) /\ UNCHANGED pkgVars
    \/ Reset /\ UNCHANGED pkgVars

SpecQuery == Init /\ [][NextQuery]_vars

\* the package's top-level functions, and the same calls made as methods of a
\* Simulation of simulation.py constructed at the start
NextPkg ==
    \/ \E kw \in FewKwargs : pkg_track(kw) /\ Track(kw)
    \/ pkg_set_metadata("a", "m", "Hoogte") /\ SetMetadata("a", "m", "Hoogte")
    \/ \E vs \in {<<>>, <<"a">>, <<"z">>}, opt \in {Defaults, [Defaults EXCEPT !.against = "a"]} :
          pkg_plot(vs, opt) /\ Plot(vs, opt)
    \/ pkg_reset /\ Reset

SpecPkg == Init /\ [][NextPkg]_vars

---------------------------------------------------------------------------
(* Properties *)

\* the value call k supplied for variable v, as the float stored; nan when call k
\* did not supply v
SuppliedAt(k, v) ==
    LET kw == calls[k].kw
        S == {i \in 1..Len(kw) : kw[i][1] = v}
    IN  IF S = {} THEN NaN ELSE Float(kw[CHOOSE i \in S : TRUE][2])

\* the names supplied by some track() call since construction or the last reset
Supplied == UNION {{calls[k].kw[i][1] : i \in 1..Len(calls[k].kw)} : k \in 1..Len(calls)}

\* C1: every series, "step" included, has exactly _current_step entries, and
\* _current_step is the number of track() calls since construction or the last
\* reset, whatever names the calls supply.
AlignmentInvariant ==
    /\ _current_step = Len(calls)
    /\ \A i \in 1..Len(_history) : Len(_history[i].v) = _current_step

\* C2: after n successful track() calls, entry k of every series but "step" is
\* the float of the value call k supplied for it, and nan where call k supplied
\* none; every name supplied has a series.
PositionwisePadding ==
    (\A k \in 1..Len(calls) : calls[k].exc = "none") =>
        /\ \A v \in Supplied : Has(_history, v)
        /\ \A i \in 1..Len(_history) :
              _history[i].k # "step" =>
                  /\ Len(_history[i].v) = Len(calls)
                  /\ \A k \in 1..Len(calls) : _history[i].v[k] = SuppliedAt(k, _history[i].k)

\* C2 witness: a variable first supplied at call 2 and omitted at call 3
IntroducedLateThenOmitted ==
    /\ Len(calls) = 3
    /\ \E i \in 1..Len(_history) :
          /\ _history[i].k # "step"
          /\ _history[i].v = <<NaN, Flt(2), NaN>>

\* C3: after n track() calls the "step" series is [1.0, ..., n] and
\* _current_step is n, whatever the calls supply.
StepSeriesCounts ==
    /\ _current_step = Len(calls)
    /\ Get(_history, "step") = [k \in 1..Len(calls) |-> Flt(k)]

\* C4: reset() leaves a Simulation in the state its constructor gives it, with
\* the name it had: for the class of simulation.py and for the package's own.
ResetIsFresh ==
    /\ last.op = "reset" =>
          /\ _history = InitHistory
          /\ _metadata = InitMetadata
          /\ _current_step = 0
          /\ name = "Simulatie"
    /\ pkgLast.op = "reset" => _global_sim = InitGlobalSim

\* C5: after any top-level calls the default instance holds the series and the
\* metadata a Simulation of simulation.py holds after the same method calls, and
\* the last call raised the same.
PkgForwardsToRecorder ==
    pkgLast.op # "init" =>
        /\ _global_sim.history = _history
        /\ _global_sim.metadata = _metadata
        /\ pkgLast.exc = last.exc

\* the most recent non-empty value the set_metadata() calls gave variable v for
\* field, "" when they gave none
LastGiven(v, field) ==
    LET S == {i \in 1..Len(metaCalls) :
                 metaCalls[i].variable = v /\ metaCalls[i][field] # ""}
    IN  IF S = {} THEN "" ELSE metaCalls[CHOOSE i \in S : \A j \in S : j <= i][field]

\* what _metadata stores for variable v under field, "" when it stores nothing
Stored(v, field) ==
    IF v \in DOMAIN _metadata THEN GetOr(_metadata[v], field, "") ELSE ""

\* C6: the stored unit and label of a variable are the most recent non-empty
\* ones given since construction or the last reset (for "step", the label
\* "Stappen" it is constructed with until one is given); the display label is
\* the raw name without metadata, else label-or-name, followed by " (unit)"
\* when there is a unit.
MetadataAndLabel ==
    \A v \in {"step", "a", "b"} :
        LET unit == LastGiven(v, "unit")
            given == LastGiven(v, "label")
            label == IF given # "" THEN given ELSE IF v = "step" THEN "Stappen" ELSE ""
            label_or_name == IF label # "" THEN label ELSE v
        IN  /\ Stored(v, "unit") = unit
            /\ Stored(v, "label") = label
            /\ v \notin DOMAIN _metadata => GetLabel(_metadata, v) = v
            /\ GetLabel(_metadata, v) =
                  IF unit = "" THEN label_or_name ELSE label_or_name \o " (" \o unit \o ")"

\* C6 witness: a unit-only call after a call that gave a label: the label stays
UnitOnlyKeepsLabel ==
    /\ last.op = "set_metadata"
    /\ last.arg[1] = "a"
    /\ last.arg[2] # "" /\ last.arg[3] = ""
    /\ Stored(last.arg[1], "label") = "Hoogte"
    /\ GetLabel(_metadata, last.arg[1]) = "Hoogte (s)"
    /\ \E i \in 1..Len(metaCalls) : metaCalls[i].unit = "m"

\* what the last plot() call plots: its variables, or by default every key but
\* the x axis
Plotted ==
    IF last.arg.variables = <<>> THEN OtherKeys(_history, XAxis(last.arg.opt.against))
    ELSE last.arg.variables

\* the error plot() must end with: EmptyData without any track() call, else
\* UnknownVariable for an x axis or a variable that is no key
PlotErrorIsRight ==
    last.op = "plot" =>
        /\ (last.exc = "EmptyData") <=> (calls = <<>>)
        /\ (last.exc = "EmptyData") <=> (Get(_history, "step") = <<>>)
        /\ calls # <<>> =>
              ((last.exc = "UnknownVariable") <=>
                  \/ ~Has(_history, XAxis(last.arg.opt.against))
                  \/ \E i \in 1..Len(last.arg.variables) :
                        ~Has(_history, last.arg.variables[i]))
        /\ last.exc \in {"EmptyData", "UnknownVariable", "none"}

\* plot() changes nothing of the recorder
PlotChangesNothing ==
    last'.op = "plot" => UNCHANGED <<_history, _metadata, _current_step, name>>

\* C7: plot() fails with EmptyData exactly when no track() call was made since
\* construction or the last reset, otherwise with UnknownVariable exactly when
\* the x axis or a requested variable is no key; it never changes the series,
\* the metadata, the counter or the name.
PlotOutcome == []PlotErrorIsRight /\ [][PlotChangesNothing]_vars

\* C7 witness: data recorded, the x axis known, a requested variable unknown
PlotUnknownVariable ==
    /\ last.op = "plot"
    /\ last.exc = "UnknownVariable"
    /\ calls # <<>>
    /\ Has(_history, XAxis(last.arg.opt.against))

\* the tracked names: "step", and every name a track() call supplied
Tracked == {"step"} \cup Supplied

\* get_data() fails exactly for an untracked name and else returns the series
GetDataIsRight ==
    last.op = "get_data" =>
        /\ (last.exc = "NotFound") <=> (last.arg \notin Tracked)
        /\ last.exc = "none" =>
              /\ last.out = Get(_history, last.arg)
              /\ Len(last.out) = Len(calls)
              /\ returned.val = last.out

\* get_data() changes nothing of the recorder; a later track() or reset() leaves
\* the list returned as it was; the caller's change to the list leaves the
\* recorder as it was
GetDataCopies ==
    /\ last'.op = "get_data" =>
          UNCHANGED <<_history, _metadata, _current_step, name>>
    /\ last'.op \in {"track", "reset"} => returned'.val = returned.val
    /\ last'.op = "caller_append" =>
          UNCHANGED <<_history, _metadata, _current_step, name>>

\* C8: get_data(name) fails with NotFound exactly when name is not tracked, and
\* else returns the whole series as a copy: the call changes nothing, a later
\* track() does not change the list returned, and changing that list does not
\* change the recorder.
GetDataContract == []GetDataIsRight /\ [][GetDataCopies]_vars

\* C8 witness: the caller holds a series that a later track() call has outgrown
ReturnedThenTracked ==
    /\ returned.held
    /\ last.op = "track"
    /\ returned.val = <<Flt(2)>>
    /\ Has(_history, "a")
    /\ Len(Get(_history, "a")) = 2

\* C9: with track() calls rejected for a non-numeric value, every series still
\* has _current_step entries.
AlignedAfterRejection ==
    (/\ \E k \in 1..Len(calls) : calls[k].exc = "TypeError"
     /\ \A k \in 1..Len(calls) : calls[k].exc \in {"none", "TypeError"})
        => \A i \in 1..Len(_history) : Len(_history[i].v) = _current_step

\* the number of calls of out to pyplot function fn
CountOf(out, fn) == Cardinality({j \in 1..Len(out) : out[j].fn = fn})

\* C10: plot() fails before any pyplot call, or makes the complete sequence:
\* figure, one plot per series plotted in order, the labels and the title, a
\* legend only for more than one series, and show last.
PlotCallOrder ==
    last.op = "plot" =>
        LET out == last.out
            n == Len(Plotted)
            x_axis == XAxis(last.arg.opt.against)
        IN  \/ last.exc # "none" /\ out = <<>>
            \/ /\ last.exc = "none"
               /\ Len(out) >= n + 5
               /\ out[1] = Fig
               /\ \A i \in 1..n :
                     out[i + 1] = Line(Get(_history, x_axis), Get(_history, Plotted[i]),
                                       GetLabel(_metadata, Plotted[i]))
               /\ out[n + 2].fn = "xlabel"
               /\ \A j \in (n + 2)..Len(out) : out[j].fn \notin {"figure", "plot"}
               /\ CountOf(out, "title") = 1
               /\ CountOf(out, "legend") = (IF n > 1 THEN 1 ELSE 0)
               /\ CountOf(out, "show") = 1
               /\ out[Len(out)].fn = "show"

===========================================================================
